---- MODULE Spec2Model ----
(***************************************************************************)
(* Model of the stockreco front-end decision pipeline:                     *)
(*   - guessOptionSymbol        (pages/_RecoPage.jsx, symbol resolver)     *)
(*   - pickOptionsRows          (pages/OptionsRecommendations.jsx)         *)
(*   - RecoPage rows            (invalidation + ranking)                   *)
(*   - computePayoffSeries      (expiry payoff curve)                      *)
(*   - PnlSimulatorModal table  (delta/gamma scenario table)               *)
(*   - useLiveOptionQuotes      (polling hook)                             *)
(*                                                                         *)
(* Conventions.  JavaScript strings are TLA+ strings; the empty string     *)
(* stands for an absent (undefined) string field, both being falsy.  An    *)
(* optional number is <<>> (undefined) or <<n>>.  Prices are integers;     *)
(* fractional quantities carry their scale in the name of the definition   *)
(* that produces them.  IEEE-754 rounding is not modelled: arithmetic is   *)
(* exact.                                                                  *)
(***************************************************************************)
EXTENDS Integers, Sequences, FiniteSets, TLC

\* symbol resolver: the row under resolution, the logical expiry date it was
\* spelled from (NULL for free text), the results per spelling, and whether
\* the JavaScript engine's Date constructor accepts non-ISO text
VARIABLES symIn, symDate, symOut, symEngine

symVars == <<symIn, symDate, symOut, symEngine>>

\* RecoPage.  backend: the report the server holds; data: the payload object
\* in React state (pickOptionsRows writes into it); rowsRaw, rows: the two
\* memoised lists; rowsPerm: for each rank, the index in rowsRaw of the row
\* shown there; clock: the wall clock's date
VARIABLES backend, data, rowsRaw, rows, rowsPerm, asOf, latest, clock,
          datesPending, fetching

pageVars == <<backend, data, rowsRaw, rows, rowsPerm, asOf, latest, clock,
              datesPending, fetching>>

\* computePayoffSeries: its argument, whether it has run, and its result
VARIABLES pfIn, pfDone, pfOut

payoffVars == <<pfIn, pfDone, pfOut>>

\* PnL simulator page: the row of the table, the modal's row and quote
\* (React state of the page), the memoised scenario table and what the
\* modal renders
VARIABLES simRow, modalRow, modalQuote, simTable, simView

simVars == <<simRow, modalRow, modalQuote, simTable, simView>>

\* useLiveOptionQuotes: the hook's state (quotes, loading), aliveRef, the
\* signature of the polled symbols, the number of interval timers that are
\* set, the fetches awaiting their response (each with the `stopped` flag
\* of the effect closure that issued it) and the number of fetches issued.
\* lastGood and lastPoll record, for the current symbol set, the snapshot
\* stored by the last successful poll and the outcome of the last poll
\* that completed.  lastApplied is the issue number of the fetch whose
\* data response was stored last, newestApplied the largest issue number
\* of a fetch whose data response was stored, lastDropped the issue number
\* of the last fetch whose response was discarded (0 for none).
VARIABLES quotes, loading, aliveRef, sig, timer, inFlight, polls, lastGood, lastPoll,
          lastApplied, newestApplied, lastDropped

quoteVars == <<quotes, loading, aliveRef, sig, timer, inFlight, polls, lastGood, lastPoll,
               lastApplied, newestApplied, lastDropped>>

\* CommodityRecoPage: the selected as-of date, the report in state (NULL when
\* it is not an array), the invalidated rows, the wall clock, the requests
\* pending.  cmShown is the as-of date of the report in state ("" for none)
\* and cmSeen records, per as-of date, the expired flags of the first
\* evaluation of its report.
VARIABLES cmAsOf, cmData, cmRows, cmClock, cmDatesPending, cmFetching, cmShown, cmSeen

commodityVars ==
    <<cmAsOf, cmData, cmRows, cmClock, cmDatesPending, cmFetching, cmShown, cmSeen>>

\* RecoPage's payoff modal: the three pieces of state of lines 338-340, the
\* memos payoffData and payoffMeta and the body the Modal renders.
\* lastClick is the row of the last click on the table and ignoredClick the
\* row of the last click that the guard of lines 256-260 turned away.
VARIABLES payoffOpen, payoffRow, payoffQuote, payoffData, payoffMeta, payoffBody,
          lastClick, ignoredClick

modalVars == <<payoffOpen, payoffRow, payoffQuote, payoffData, payoffMeta, payoffBody,
               lastClick, ignoredClick>>

\* PayoffModal.jsx: its props, whether it has rendered, the payload memo
\* and what it renders
VARIABLES pmIn, pmDone, pmPayload, pmView

payoffModalVars == <<pmIn, pmDone, pmPayload, pmView>>

vars == <<symVars, pageVars, payoffVars, simVars, quoteVars, commodityVars, modalVars,
          payoffModalVars>>

\* what each component's actions leave alone
symOthers == <<pageVars, payoffVars, simVars, quoteVars, commodityVars, modalVars,
    payoffModalVars>>

pageOthers == <<symVars, payoffVars, simVars, quoteVars, commodityVars, modalVars,
    payoffModalVars>>

payoffOthers == <<symVars, pageVars, simVars, quoteVars, commodityVars, modalVars,
    payoffModalVars>>

simOthers == <<symVars, pageVars, payoffVars, quoteVars, commodityVars, modalVars,
    payoffModalVars>>

quoteOthers == <<symVars, pageVars, payoffVars, simVars, commodityVars, modalVars,
    payoffModalVars>>

commodityOthers == <<symVars, pageVars, payoffVars, simVars, quoteVars, modalVars,
    payoffModalVars>>

modalOthers ==
    <<symVars, pageVars, payoffVars, simVars, quoteVars, commodityVars, payoffModalVars>>

payoffModalOthers ==
    <<symVars, pageVars, payoffVars, simVars, quoteVars, commodityVars, modalVars>>

(***************************************************************************)
(* JavaScript value helpers                                                *)
(***************************************************************************)
NULL == <<>>

Some(x) == <<x>>

Has(m) == m # <<>>

Val(m) == m[1]

Min(a, b) == IF a < b THEN a ELSE b

Max(a, b) == IF a > b THEN a ELSE b

Abs(a) == IF a < 0 THEN -a ELSE a

LowerChars == "abcdefghijklmnopqrstuvwxyz"

UpperChars == "ABCDEFGHIJKLMNOPQRSTUVWXYZ"

DigitChars == "0123456789"

CharAt(s, i) == SubSeq(s, i, i)

\* position (1-based) of the one-character string c in s, 0 when absent
IndexOfChar(c, s) ==
    LET hits == {i \in 1..Len(s) : CharAt(s, i) = c}
    IN  IF hits = {} THEN 0 ELSE CHOOSE i \in hits : \A j \in hits : i <= j

UpChar(c) ==
    LET i == IndexOfChar(c, LowerChars)
    IN  IF i = 0 THEN c ELSE CharAt(UpperChars, i)

RECURSIVE toUpperCase(_)
toUpperCase(s) ==
    IF Len(s) = 0 THEN ""
    ELSE UpChar(CharAt(s, 1)) \o toUpperCase(SubSeq(s, 2, Len(s)))

RECURSIVE trimStart(_)
trimStart(s) ==
    IF Len(s) > 0 /\ CharAt(s, 1) = " " THEN trimStart(SubSeq(s, 2, Len(s))) ELSE s

RECURSIVE trimEnd(_)
trimEnd(s) ==
    IF Len(s) > 0 /\ CharAt(s, Len(s)) = " " THEN trimEnd(SubSeq(s, 1, Len(s) - 1)) ELSE s

trim(s) == trimEnd(trimStart(s))

\* String.prototype.split(sep) for a one-character separator
RECURSIVE split(_, _)
split(s, sep) ==
    LET i == IndexOfChar(sep, s)
    IN  IF i = 0 THEN <<s>>
        ELSE <<SubSeq(s, 1, i - 1)>> \o split(SubSeq(s, i + 1, Len(s)), sep)

\* String.prototype.padStart(2, "0")
padStart2(s) ==
    IF Len(s) >= 2 THEN s ELSE IF Len(s) = 1 THEN "0" \o s ELSE "00"

\* String.prototype.substring(a, b), 0-based, end exclusive, clamped to the string
substring(s, a, b) ==
    LET lo == Min(Max(a, 0), Len(s))
        hi == Min(Max(b, 0), Len(s))
    IN  IF lo >= hi THEN "" ELSE SubSeq(s, lo + 1, hi)

\* String.prototype.replace(".NS", ""): the first occurrence only
replaceDotNS(s) ==
    LET hits == {i \in 1..(Len(s) - 2) : SubSeq(s, i, i + 2) = ".NS"}
    IN  IF hits = {} THEN s
        ELSE LET i == CHOOSE k \in hits : \A j \in hits : k <= j
             IN  SubSeq(s, 1, i - 1) \o SubSeq(s, i + 3, Len(s))

\* String(n) for a non-negative integer
RECURSIVE NatStr(_)
NatStr(n) ==
    IF n < 10 THEN CharAt(DigitChars, n + 1)
    ELSE NatStr(n \div 10) \o CharAt(DigitChars, (n % 10) + 1)

\* String(n) for an integer
IntStr(n) == IF n < 0 THEN "-" \o NatStr(-n) ELSE NatStr(n)

\* variant: truncation instead of rounding
truncTenths(t) == t \div 10

\* Math.round of a number given in tenths: floor(x + 0.5)
roundTenths(t) == (t + 5) \div 10

(***************************************************************************)
(* Symbol resolver: guessOptionSymbol                                      *)
(* A row r carries symbol, side, expiry (strings) and strike (optional     *)
(* number, in tenths).                                                     *)
(***************************************************************************)
months == <<"JAN", "FEB", "MAR", "APR", "MAY", "JUN",
            "JUL", "AUG", "SEP", "OCT", "NOV", "DEC">>

\* new Date(s) for a string that does not split into three dash-separated
\* parts.  Only the slash form YYYY/MM/DD is recognised, and only by an
\* engine that accepts it (the format is implementation-defined); everything
\* else is an Invalid Date.  Result: NULL or <<[y, m, d]>>.
IsDigits(s) == \A i \in 1..Len(s) : IndexOfChar(CharAt(s, i), DigitChars) > 0

RECURSIVE DigitsVal(_)
DigitsVal(s) ==
    IF Len(s) = 0 THEN 0
    ELSE 10 * DigitsVal(SubSeq(s, 1, Len(s) - 1))
         + (IndexOfChar(CharAt(s, Len(s)), DigitChars) - 1)

newDate(s, engine) ==
    LET p == split(s, "/")
    IN  IF /\ engine = "lenient"
           /\ Len(p) = 3
           /\ Len(p[1]) = 4 /\ Len(p[2]) = 2 /\ Len(p[3]) = 2
           /\ IsDigits(p[1]) /\ IsDigits(p[2]) /\ IsDigits(p[3])
           /\ DigitsVal(p[2]) \in 1..12 /\ DigitsVal(p[3]) \in 1..31
        THEN Some([y |-> DigitsVal(p[1]), m |-> DigitsVal(p[2]), d |-> DigitsVal(p[3])])
        ELSE NULL

\* the DDMONYY token of an expiry string, NULL when the Date constructor fails
expiryToken(expiry, engine) ==
    LET expStr == toUpperCase(trim(expiry))
        parts  == split(expStr, "-")
    IN  IF Len(parts) = 3
        THEN Some(padStart2(parts[1]) \o substring(parts[2], 0, 3)
                                      \o substring(parts[3], 2, 4))
        ELSE LET d == newDate(expStr, engine)
             IN  IF ~Has(d) THEN NULL
                 ELSE Some(padStart2(NatStr(Val(d).d)) \o months[Val(d).m]
                             \o substring(NatStr(Val(d).y), 2, 4))

\* variant: the side is not tested before it is used
guessOptionSymbolAnySide(r, engine) ==
    IF \/ Len(r.symbol) = 0
       \/ ~Has(r.strike) \/ Val(r.strike) = 0
       \/ Len(r.expiry) = 0
    THEN NULL
    ELSE LET tok == expiryToken(r.expiry, engine)
         IN  IF ~Has(tok) THEN NULL
             ELSE Some(replaceDotNS(toUpperCase(r.symbol)) \o Val(tok)
                         \o IntStr(roundTenths(Val(r.strike)))
                         \o toUpperCase(IF r.side = "" THEN "undefined" ELSE r.side))

guessOptionSymbol(r, engine) ==
    IF \/ Len(r.symbol) = 0
       \/ ~Has(r.strike) \/ Val(r.strike) = 0
       \/ Len(r.side) = 0
       \/ Len(r.expiry) = 0
    THEN NULL
    ELSE LET tok == expiryToken(r.expiry, engine)
         IN  IF ~Has(tok) THEN NULL
             ELSE Some(replaceDotNS(toUpperCase(r.symbol)) \o Val(tok)
                         \o IntStr(roundTenths(Val(r.strike)))
                         \o toUpperCase(r.side))

(***************************************************************************)
(* Symbol resolver as a state machine: the same candidate is resolved      *)
(* under each spelling of its expiry the backend writes.                   *)
(***************************************************************************)
\* DD-MON-YYYY and ISO YYYY-MM-DD spellings of a logical date (backend output)
FmtDMY(dt) == padStart2(NatStr(dt.d)) \o "-" \o months[dt.m] \o "-" \o NatStr(dt.y)

FmtISO(dt) == NatStr(dt.y) \o "-" \o padStart2(NatStr(dt.m)) \o "-" \o padStart2(NatStr(dt.d))

SymDates == {[y |-> 2026, m |-> 1, d |-> 6], [y |-> 2025, m |-> 12, d |-> 30]}

SymTickers == {"NIFTY", "reliance.ns", ""}

SymStrikes == {NULL, Some(0), Some(261000), Some(245005)}

SymSides == {"CE", "pe", ""}

SymRawExpiries == {"", "2026/01/06", "06JAN2026", "A-B-C"}

Pending == [done |-> FALSE, val |-> NULL]

Done(v) == [done |-> TRUE, val |-> v]

SymInit ==
    /\ symEngine \in {"lenient", "strict"}
    /\ symDate \in {NULL} \cup {Some(dt) : dt \in SymDates}
    /\ symIn \in [symbol : SymTickers, strike : SymStrikes, side : SymSides,
                  expiry : IF Has(symDate) THEN {""} ELSE SymRawExpiries]
    /\ symOut = [DMY |-> Pending, ISO |-> Pending, RAW |-> Pending]

SymIdle ==
    /\ symEngine = "strict"
    /\ symDate = NULL
    /\ symIn = [symbol |-> "", strike |-> NULL, side |-> "", expiry |-> ""]
    /\ symOut = [DMY |-> Pending, ISO |-> Pending, RAW |-> Pending]

\* the candidate arrives with its expiry written DD-MON-YYYY
ResolveDMY ==
    /\ Has(symDate) /\ ~symOut.DMY.done
    /\ symOut' = [symOut EXCEPT !.DMY =
           Done(guessOptionSymbol([symIn EXCEPT !.expiry = FmtDMY(Val(symDate))], symEngine))]
    /\ UNCHANGED <<symIn, symDate, symEngine>>
    /\ UNCHANGED symOthers

\* the candidate arrives with its expiry written YYYY-MM-DD
ResolveISO ==
    /\ Has(symDate) /\ ~symOut.ISO.done
    /\ symOut' = [symOut EXCEPT !.ISO =
           Done(guessOptionSymbol([symIn EXCEPT !.expiry = FmtISO(Val(symDate))], symEngine))]
    /\ UNCHANGED <<symIn, symDate, symEngine>>
    /\ UNCHANGED symOthers

\* the candidate arrives with any other expiry text (or none)
ResolveRaw ==
    /\ ~Has(symDate) /\ ~symOut.RAW.done
    /\ symOut' = [symOut EXCEPT !.RAW = Done(guessOptionSymbol(symIn, symEngine))]
    /\ UNCHANGED <<symIn, symDate, symEngine>>
    /\ UNCHANGED symOthers

SymNext == ResolveDMY \/ ResolveISO \/ ResolveRaw

(***************************************************************************)
(* Candidate rows                                                          *)
(* One record shape serves candidates, reviewer entries and table rows; a  *)
(* field the JSON does not carry is "" / NULL / FALSE.  strike is in       *)
(* tenths, confidence and p_up in hundredths.                              *)
(***************************************************************************)
Blank ==
    [symbol |-> "", strike |-> NULL, side |-> "", expiry |-> "",
     confidence |-> NULL, p_up |-> NULL, action |-> "", instrument |-> "",
     sell_by |-> "", diag_sell_by |-> "", diag_sellBy |-> "", reason |-> "",
     reviewerApproved |-> FALSE, reviewerRejected |-> FALSE,
     rejectionReason |-> "", expired |-> FALSE]

CandA ==
    [Blank EXCEPT !.symbol = "NIFTY", !.strike = Some(261000), !.side = "CE",
                  !.expiry = "06-JAN-2026", !.confidence = Some(50),
                  !.action = "BUY", !.instrument = "OPTION",
                  !.sell_by = "2025-12-18"]

CandB ==
    [Blank EXCEPT !.symbol = "NIFTY", !.strike = Some(261000), !.side = "PE",
                  !.expiry = "06-JAN-2026", !.confidence = Some(50),
                  !.action = "BUY", !.diag_sell_by = "2025-12-19"]

CandC ==
    [Blank EXCEPT !.symbol = "RELIANCE.NS", !.strike = Some(13000), !.side = "CE",
                  !.expiry = "2026-01-27", !.confidence = Some(80),
                  !.action = "BUY", !.instrument = "OPTION",
                  !.sell_by = "2026-01-02"]

\* a malformed candidate: no side, no confidence, sell-by not YYYY-MM-DD
CandD ==
    [Blank EXCEPT !.symbol = "TCS", !.strike = Some(42000),
                  !.expiry = "30-DEC-2025", !.p_up = Some(80),
                  !.action = "SELL", !.sell_by = "18-12-2025"]

Cands == <<CandA, CandB, CandC, CandD>>

\* the reason the reviewer gives when it rejects candidate i
ReasonOf(i) ==
    <<"Confidence 0.50 below 0.55 threshold", "IV 75.0% exceeds 60.0% threshold",
      "DTE 3 below minimum 5 for strict mode", "insufficient data for side">>[i]

(***************************************************************************)
(* pickOptionsRows                                                         *)
(***************************************************************************)
\* template-literal rendering of a field: undefined prints as "undefined"
tplStr(s) == IF Len(s) = 0 THEN "undefined" ELSE s

\* String(n) of a non-negative number given in tenths
tenthsStr(t) ==
    IntStr(t \div 10) \o (IF t % 10 = 0 THEN "" ELSE "." \o NatStr(t % 10))

tplNum(m) == IF Has(m) THEN tenthsStr(Val(m)) ELSE "undefined"

\* `${r.symbol}-${r.strike}-${r.side}-${r.expiry}`
rowKey(r) ==
    tplStr(r.symbol) \o "-" \o tplNum(r.strike) \o "-" \o tplStr(r.side)
                     \o "-" \o tplStr(r.expiry)

\* a payload as the backend serves it
EmptyPayload ==
    [kind |-> "object", arr |-> <<>>, reviewer |-> NULL, recommender |-> NULL,
     final |-> NULL, recommended_options |-> NULL, report_ro |-> NULL,
     data_ro |-> NULL, result_ro |-> NULL]

NullPayload == [EmptyPayload EXCEPT !.kind = "null"]

\* variant: the reason is read from the head of the rejected list
rejectedReasonOfHead(rejected, key) == rejected[1].reason

\* Map.get after the forEach of line 30: the last entry with that key wins
rejectedReason(rejected, key) ==
    LET hits == {i \in DOMAIN rejected : rowKey(rejected[i]) = key}
    IN  rejected[CHOOSE i \in hits : \A j \in hits : j <= i].reason

\* the approved array of line 19 as a Maybe: reviewer.approved || final || []
approvedSource(payload) ==
    IF Has(Val(payload.reviewer).approved) THEN "reviewer.approved"
    ELSE IF Has(payload.final) THEN "final"
    ELSE "fresh"

\* variant: a candidate is pushed whenever the reviewer rejected its key
pushesCandidateIfRejected(key, approvedSymbols, rejectedKeys) == key \in rejectedKeys

\* line 40: !approvedSymbols.has(key) && rejectedMap.has(key)
pushesCandidate(key, approvedSymbols, rejectedKeys) ==
    key \notin approvedSymbols /\ key \in rejectedKeys

\* the array of line 20 after the pushes of lines 38-48 (the same array object
\* as reviewer.approved, or payload.final, when that is where it came from)
rowsAfterPush(payload) ==
    LET rev      == Val(payload.reviewer)
        src      == approvedSource(payload)
        approved == IF src = "reviewer.approved" THEN Val(rev.approved)
                    ELSE IF src = "final" THEN Val(payload.final)
                    ELSE <<>>
        approvedSymbols == {rowKey(approved[i]) : i \in DOMAIN approved}
        rejected == IF Has(rev.rejected) THEN Val(rev.rejected) ELSE <<>>
        rejectedKeys == {rowKey(rejected[i]) : i \in DOMAIN rejected}
        allRecos == IF Has(payload.recommender) THEN Val(payload.recommender) ELSE <<>>
        IsRej(r) == pushesCandidate(rowKey(r), approvedSymbols, rejectedKeys)
        picked   == SelectSeq(allRecos, IsRej)
        pushed   == [i \in DOMAIN picked |->
                       [picked[i] EXCEPT !.reviewerRejected = TRUE,
                                         !.rejectionReason =
                                             rejectedReason(rejected, rowKey(picked[i]))]]
    IN  approved \o pushed

\* lines 17-60: the rows returned for a payload with a reviewer section
reviewerRows(payload) ==
    LET rev      == Val(payload.reviewer)
        src      == approvedSource(payload)
        approved == IF src = "reviewer.approved" THEN Val(rev.approved)
                    ELSE IF src = "final" THEN Val(payload.final)
                    ELSE <<>>
        approvedSymbols == {rowKey(approved[i]) : i \in DOMAIN approved}
        rws      == rowsAfterPush(payload)
    IN  [i \in DOMAIN rws |->
            IF rowKey(rws[i]) \in approvedSymbols
            THEN [rws[i] EXCEPT !.reviewerApproved = TRUE]
            ELSE rws[i]]

\* the payload object after the call: rows.push(...) wrote into the array
\* that payload.reviewer.approved (or payload.final) refers to
payloadAfterPick(payload) ==
    IF payload.kind # "object" \/ ~Has(payload.reviewer) THEN payload
    ELSE LET src == approvedSource(payload)
         IN  IF src = "reviewer.approved"
             THEN [payload EXCEPT !.reviewer =
                      Some([Val(payload.reviewer) EXCEPT
                               !.approved = Some(rowsAfterPush(payload))])]
             ELSE IF src = "final"
             THEN [payload EXCEPT !.final = Some(rowsAfterPush(payload))]
             ELSE payload

pickOptionsRows(payload) ==
    IF payload.kind = "null" THEN <<>>
    ELSE IF payload.kind = "array" THEN payload.arr
    ELSE IF Has(payload.reviewer) THEN reviewerRows(payload)
    ELSE IF Has(payload.final) THEN Val(payload.final)
    ELSE IF Has(payload.recommended_options) THEN Val(payload.recommended_options)
    ELSE IF Has(payload.report_ro) THEN Val(payload.report_ro)
    ELSE IF Has(payload.data_ro) THEN Val(payload.data_ro)
    ELSE IF Has(payload.result_ro) THEN Val(payload.result_ro)
    ELSE <<>>

(***************************************************************************)
(* RecoPage: sell-by invalidation and ranking                              *)
(***************************************************************************)
\* ^(\d{4})-(\d{2})-(\d{2})$ on the trimmed string, then Number(y + m + d)
ymdToNum(s) ==
    IF Len(s) = 0 THEN NULL
    ELSE LET t == trim(s)
         IN  IF /\ Len(t) = 10
                /\ CharAt(t, 5) = "-" /\ CharAt(t, 8) = "-"
                /\ IsDigits(SubSeq(t, 1, 4))
                /\ IsDigits(SubSeq(t, 6, 7))
                /\ IsDigits(SubSeq(t, 9, 10))
             THEN Some(DigitsVal(SubSeq(t, 1, 4) \o SubSeq(t, 6, 7) \o SubSeq(t, 9, 10)))
             ELSE NULL

\* the local calendar date of the wall clock, as YYYY-MM-DD
todayYmd(clk) == FmtISO(clk)

\* r.sell_by ?? r.diagnostics.sell_by ?? r.diagnostics.sellBy ?? null
getSellBy(r) ==
    IF r.sell_by # "" THEN r.sell_by
    ELSE IF r.diag_sell_by # "" THEN r.diag_sell_by
    ELSE r.diag_sellBy

\* asOf || latest || todayYmd()
effectiveToday(asOfD, latestD, clk) ==
    IF asOfD # "" THEN asOfD ELSE IF latestD # "" THEN latestD ELSE todayYmd(clk)

\* variant: the sell-by day itself already counts as expired
isExpiredInclusive(today, sb) ==
    /\ Has(today) /\ Val(today) # 0
    /\ Has(sb) /\ Val(sb) # 0
    /\ Val(today) >= Val(sb)

\* !!(today && sb && today > sb)
isExpired(today, sb) ==
    /\ Has(today) /\ Val(today) # 0
    /\ Has(sb) /\ Val(sb) # 0
    /\ Val(today) > Val(sb)

\* the map callback of lines 384-388
invalidateRow(r, today) ==
    [r EXCEPT !.expired = isExpired(today, ymdToNum(getSellBy(r))),
              !.sell_by = getSellBy(r)]

\* a.__reviewerApproved ? 2 : a.__reviewerRejected ? 0 : 1
statusOf(r) == IF r.reviewerApproved THEN 2 ELSE IF r.reviewerRejected THEN 0 ELSE 1

\* Number(a.confidence) || 0
confOf(r) == IF Has(r.confidence) THEN Val(r.confidence) ELSE 0

\* variant: confidence ascending
compareRowsConfAscending(a, b) ==
    IF statusOf(a) # statusOf(b) THEN statusOf(b) - statusOf(a)
    ELSE confOf(a) - confOf(b)

\* the comparator of lines 388-398: negative when a sorts before b
compareRows(a, b) ==
    IF statusOf(a) # statusOf(b) THEN statusOf(b) - statusOf(a)
    ELSE confOf(b) - confOf(a)

\* Array.prototype.sort is stable (ECMAScript 2019): element i of the input
\* goes after every element already placed that does not compare greater.
\* The result is the permutation of input indices.
\* variant: an unstable sort, which puts an element before its equals
insertBeforeEquals(rs, perm, i) ==
    LET later == {k \in DOMAIN perm : compareRows(rs[perm[k]], rs[i]) >= 0}
        pos   == IF later = {} THEN Len(perm) + 1
                 ELSE CHOOSE k \in later : \A j \in later : k <= j
    IN  SubSeq(perm, 1, pos - 1) \o <<i>> \o SubSeq(perm, pos, Len(perm))

insertStable(rs, perm, i) ==
    LET later == {k \in DOMAIN perm : compareRows(rs[perm[k]], rs[i]) > 0}
        pos   == IF later = {} THEN Len(perm) + 1
                 ELSE CHOOSE k \in later : \A j \in later : k <= j
    IN  SubSeq(perm, 1, pos - 1) \o <<i>> \o SubSeq(perm, pos, Len(perm))

RECURSIVE sortPrefix(_, _)
sortPrefix(rs, n) ==
    IF n = 0 THEN <<>> ELSE insertStable(rs, sortPrefix(rs, n - 1), n)

sortPerm(rs) == sortPrefix(rs, Len(rs))

\* lines 381-399: the ranked, invalidated rows and the permutation that ranks them
rankedPerm(raw, asOfD, latestD, clk) ==
    LET today  == ymdToNum(effectiveToday(asOfD, latestD, clk))
        mapped == [i \in DOMAIN raw |-> invalidateRow(raw[i], today)]
    IN  sortPerm(mapped)

rankedRows(raw, asOfD, latestD, clk) ==
    LET today  == ymdToNum(effectiveToday(asOfD, latestD, clk))
        mapped == [i \in DOMAIN raw |-> invalidateRow(raw[i], today)]
        perm   == sortPerm(mapped)
    IN  [k \in DOMAIN perm |-> mapped[perm[k]]]

(***************************************************************************)
(* Table: what a ranked row shows                                          *)
(***************************************************************************)
\* variant: the stored confidence is shown for a rejected row too
displayConfidenceStored(r) == IF Has(r.confidence) THEN Val(r.confidence) ELSE 0

\* line 241: isRejected ? 0 : (r.confidence || 0), in hundredths; line 316
\* shows Math.round(displayConfidence * 100) percent, the same number
displayConfidence(r) ==
    IF r.reviewerRejected THEN 0
    ELSE IF Has(r.confidence) THEN Val(r.confidence) ELSE 0

\* variant: only the expired flag turns a click away
rowOpensPayoffUnlessExpired(r) == ~r.expired

\* lines 256-260: a click on the row reaches onRowClick (the payoff modal)
rowOpensPayoff(r) ==
    /\ ~r.expired
    /\ r.side # ""
    /\ Has(r.strike) /\ Val(r.strike) # 0

\* variant: the badge always shows the row's own action
badgeActionOwn(r) == r.action

\* line 272: <Badge action={isExpired ? "HOLD" : r.action} />
badgeAction(r) == IF r.expired THEN "HOLD" ELSE r.action

(***************************************************************************)
(* RecoPage as a state machine                                             *)
(***************************************************************************)
AsOfDates == {"2025-12-18", "2025-12-19", "2026-01-03"}

ClockDays == <<[y |-> 2025, m |-> 12, d |-> 19], [y |-> 2025, m |-> 12, d |-> 20]>>

Statuses == {"absent", "approved", "rejected", "both", "undecided"}

\* the reviewer payload in which candidate i has status st[i]
ReviewerPayload(st) ==
    LET idx       == <<1, 2, 3, 4>>
        InAppr(i) == st[i] \in {"approved", "both"}
        InRej(i)  == st[i] \in {"rejected", "both"}
        InReco(i) == st[i] # "absent"
        appr      == SelectSeq(idx, InAppr)
        rej       == SelectSeq(idx, InRej)
        reco      == SelectSeq(idx, InReco)
    IN  [EmptyPayload EXCEPT
            !.reviewer = Some([approved |-> Some([k \in DOMAIN appr |-> Cands[appr[k]]]),
                               rejected |-> Some([k \in DOMAIN rej |->
                                   [Cands[rej[k]] EXCEPT !.reason = ReasonOf(rej[k])]])]),
            !.recommender = Some([k \in DOMAIN reco |-> Cands[reco[k]]]),
            !.final = Some([k \in DOMAIN appr |-> Cands[appr[k]]])]

ReviewerPayloads ==
    {ReviewerPayload(st) :
        st \in {f \in [1..4 -> Statuses] : /\ f[3] \in {"approved", "rejected", "undecided"}
                                            /\ f[4] \in {"absent", "rejected"}}}

LegacyPayloads ==
    {NullPayload,
     EmptyPayload,
     [EmptyPayload EXCEPT !.kind = "array", !.arr = Cands],
     [EmptyPayload EXCEPT !.final = Some(<<CandA, CandC>>)],
     [EmptyPayload EXCEPT !.recommended_options = Some(<<CandB, CandA>>)],
     [EmptyPayload EXCEPT !.report_ro = Some(<<CandC>>)],
     [EmptyPayload EXCEPT !.data_ro = Some(<<CandD, CandC>>)],
     [EmptyPayload EXCEPT !.result_ro = Some(<<CandA>>)],
     \* reviewer without an approved list: line 19 falls back to payload.final
     [EmptyPayload EXCEPT
         !.reviewer = Some([approved |-> NULL,
                            rejected |-> Some(<<[CandB EXCEPT !.reason = ReasonOf(2)]>>)]),
         !.recommender = Some(<<CandA, CandB>>),
         !.final = Some(<<CandA>>)],
     [EmptyPayload EXCEPT
         !.reviewer = Some([approved |-> NULL, rejected |-> NULL])]}

Payloads == ReviewerPayloads \cup LegacyPayloads

PageInit ==
    /\ backend \in Payloads
    /\ clock \in {ClockDays[1]}
    /\ data = NullPayload
    /\ rowsRaw = <<>> /\ rows = <<>> /\ rowsPerm = <<>>
    /\ asOf = "" /\ latest = ""
    /\ datesPending = TRUE
    /\ fetching = FALSE

PageIdle ==
    /\ backend = NullPayload
    /\ clock = ClockDays[1]
    /\ data = NullPayload
    /\ rowsRaw = <<>> /\ rows = <<>> /\ rowsPerm = <<>>
    /\ asOf = "" /\ latest = ""
    /\ datesPending = FALSE
    /\ fetching = FALSE

\* one render of RecoPage after a state change: rowsRaw (line 365), then rows
\* (lines 381-399); pickRows may write into the payload object it is given
RenderWith(d, asOfD, latestD) ==
    LET raw == IF d.kind = "array" THEN d.arr ELSE pickOptionsRows(d)
    IN  /\ rowsRaw' = raw
        /\ data' = IF d.kind = "array" THEN d ELSE payloadAfterPick(d)
        /\ rows' = rankedRows(raw, asOfD, latestD, clock)
        /\ rowsPerm' = rankedPerm(raw, asOfD, latestD, clock)

\* rows recomputed because asOf or latest changed; rowsRaw is memoised
RerankWith(asOfD, latestD) ==
    /\ rows' = rankedRows(rowsRaw, asOfD, latestD, clock)
    /\ rowsPerm' = rankedPerm(rowsRaw, asOfD, latestD, clock)
    /\ UNCHANGED <<data, rowsRaw>>

\* lines 342-354: the dates request resolves
DatesLoaded(l) ==
    /\ datesPending
    /\ datesPending' = FALSE
    /\ latest' = l
    /\ asOf' = IF asOf = "" /\ l # "" THEN l ELSE asOf
    /\ fetching' = (fetching \/ asOf' # asOf)
    /\ RerankWith(asOf', l)
    /\ UNCHANGED <<backend, clock>>
    /\ UNCHANGED pageOthers

\* lines 352: the dates request fails
DatesFailed ==
    /\ datesPending
    /\ datesPending' = FALSE
    /\ UNCHANGED <<backend, data, rowsRaw, rows, rowsPerm, asOf, latest, clock, fetching>>
    /\ UNCHANGED pageOthers

\* lines 457-459 and 356-363: the user picks another as-of date
SetAsOf(d) ==
    /\ ~datesPending
    /\ d # asOf
    /\ asOf' = d
    /\ fetching' = TRUE
    /\ RerankWith(d, latest)
    /\ UNCHANGED <<backend, latest, clock, datesPending>>
    /\ UNCHANGED pageOthers

\* lines 359-361: the report request resolves; the page renders with it
DataArrives ==
    /\ fetching
    /\ fetching' = FALSE
    /\ RenderWith(backend, asOf, latest)
    /\ UNCHANGED <<backend, asOf, latest, clock, datesPending>>
    /\ UNCHANGED pageOthers

\* line 362: the report request fails
DataFails ==
    /\ fetching
    /\ fetching' = FALSE
    /\ RenderWith(NullPayload, asOf, latest)
    /\ UNCHANGED <<backend, asOf, latest, clock, datesPending>>
    /\ UNCHANGED pageOthers

\* pickRows runs again on the payload object already in state (the memo of
\* line 365 is not a guarantee, and part_004 line 278 calls it on every render)
Rerender ==
    /\ data.kind # "null"
    /\ RenderWith(data, asOf, latest)
    /\ UNCHANGED <<backend, asOf, latest, clock, datesPending, fetching>>
    /\ UNCHANGED pageOthers

\* midnight passes
ClockTick ==
    /\ clock = ClockDays[1]
    /\ clock' = ClockDays[2]
    /\ UNCHANGED <<backend, data, rowsRaw, rows, rowsPerm, asOf, latest,
                   datesPending, fetching>>
    /\ UNCHANGED pageOthers

PageNext ==
    \/ \E l \in {"", "2025-12-19"} : DatesLoaded(l)
    \/ DatesFailed
    \/ \E d \in AsOfDates : SetAsOf(d)
    \/ DataArrives
    \/ DataFails
    \/ Rerender
    \/ ClockTick

(***************************************************************************)
(* computePayoffSeries                                                     *)
(* strike, spot, premium and atrPoints are optional whole numbers (NULL is *)
(* undefined, whose Number() is NaN).  Window bounds are kept in tenths,   *)
(* the S and pnl of a point in hundredths (the two decimals of toFixed).   *)
(***************************************************************************)
\* number of points of the series (line 139)
PayoffPoints == 121

\* variant: the digits after the second decimal are cut off
toFixed2Cut(a, d) ==
    LET q == Abs(a) \div d
    IN  IF a < 0 THEN -q ELSE q

\* Number(x.toFixed(2)) in hundredths, for x = a / (100 * d) exactly (d > 0):
\* the nearest hundredth, the larger magnitude on a tie
toFixed2(a, d) ==
    LET q == (2 * Abs(a) + d) \div (2 * d)
    IN  IF a < 0 THEN -q ELSE q

\* variant: no fallback of the reference spot to the strike
refSpotNoFallback(spot, strike) ==
    IF Has(spot) /\ Val(spot) # 0 THEN Val(spot) ELSE 0

\* Number(spot) || K || 0, where K may be NaN (NULL)
refSpot(spot, strike) ==
    IF Has(spot) /\ Val(spot) # 0 THEN Val(spot)
    ELSE IF Has(strike) /\ Val(strike) # 0 THEN Val(strike)
    ELSE 0

\* lines 126-137: the price window [low, high], in tenths
payoffWindow(in) ==
    LET K   == Val(in.strike)
        S0  == refSpot(in.spot, in.strike)
        atr == in.atrPoints
    IN  IF Has(atr) /\ Val(atr) > 0 /\ S0 > 0
        THEN [low |-> Max(0, 10 * S0 - 22 * Val(atr)), high |-> 10 * S0 + 22 * Val(atr)]
        ELSE IF S0 > 0
        THEN [low |-> Max(0, 9 * S0), high |-> 11 * S0]
        ELSE [low |-> Max(0, 9 * K), high |-> 11 * K]

\* line 124: !Number.isFinite(K) || !Number.isFinite(prem) || prem <= 0
payoffRejects(in) ==
    \/ ~Has(in.strike)
    \/ ~Has(in.premium)
    \/ Val(in.premium) <= 0

\* variant: the intrinsic value is not floored at 0
payoffPointUnfloored(in, i) ==
    LET w     == payoffWindow(in)
        den   == 10 * (PayoffPoints - 1)
        Snum  == (PayoffPoints - 1) * w.low + i * (w.high - w.low)
        Knum  == den * Val(in.strike)
        Pnum  == den * Val(in.premium)
        pnl   == IF toUpperCase(in.side) = "CE"
                 THEN (Snum - Knum) - Pnum
                 ELSE (Knum - Snum) - Pnum
    IN  [S |-> toFixed2(Snum, den \div 100), pnl |-> toFixed2(pnl, den \div 100)]

\* lines 139-152: point i (0-based) of the series.  With the window in
\* tenths and step = (high - low) / 120, S = (120*low + i*(high - low)) / 1200
payoffPoint(in, i) ==
    LET w     == payoffWindow(in)
        den   == 10 * (PayoffPoints - 1)
        Snum  == (PayoffPoints - 1) * w.low + i * (w.high - w.low)
        Knum  == den * Val(in.strike)
        Pnum  == den * Val(in.premium)
        pnl   == IF toUpperCase(in.side) = "CE"
                 THEN Max(0, Snum - Knum) - Pnum
                 ELSE Max(0, Knum - Snum) - Pnum
    IN  [S |-> toFixed2(Snum, den \div 100), pnl |-> toFixed2(pnl, den \div 100)]

computePayoffSeries(in) ==
    IF payoffRejects(in) THEN <<>>
    ELSE [i \in 1..PayoffPoints |-> payoffPoint(in, i - 1)]

PayoffSides == {"CE", "PE"}

PayoffStrikes == {NULL, Some(0), Some(-100), Some(24500)}

PayoffSpots == {NULL, Some(0), Some(-50), Some(300), Some(24400)}

PayoffPremiums == {NULL, Some(0), Some(-5), Some(120)}

PayoffAtrs == {NULL, Some(0), Some(220)}

PayoffInit ==
    /\ pfIn \in [side : PayoffSides, strike : PayoffStrikes, spot : PayoffSpots,
                 premium : PayoffPremiums, atrPoints : PayoffAtrs]
    /\ pfDone = FALSE
    /\ pfOut = <<>>

PayoffIdle ==
    /\ pfIn = [side |-> "CE", strike |-> NULL, spot |-> NULL, premium |-> NULL,
               atrPoints |-> NULL]
    /\ pfDone = FALSE
    /\ pfOut = <<>>

ComputePayoff ==
    /\ ~pfDone
    /\ pfDone' = TRUE
    /\ pfOut' = computePayoffSeries(pfIn)
    /\ UNCHANGED pfIn
    /\ UNCHANGED payoffOthers

PayoffNext == ComputePayoff

(***************************************************************************)
(* PnlSimulatorModal                                                       *)
(* Units: spot fields in hundreds, prices (entry_price, ltp) whole, delta  *)
(* in tenths, gamma in ten-thousandths.  In a table row, pct is in units   *)
(* of 0.5%, S in halves, priceEst and pnl in 1/80000, pnlPct in            *)
(* thousandths of a percent (nearest).                                     *)
(***************************************************************************)
\* line 20: -2% .. +2%, in units of 0.5%
simSteps == <<-4, -3, -2, -1, 0, 1, 2, 3, 4>>

\* a || b || c on optional numbers (0 and undefined are falsy)
firstTruthy(a, b, c) ==
    IF Has(a) /\ Val(a) # 0 THEN a ELSE IF Has(b) /\ Val(b) # 0 THEN b ELSE c

\* quote?.ok ? quote.f : rowF, for the field f of the quote
quoteOr(quote, fromQuote, fromRow) ==
    IF Has(quote) /\ Val(quote).ok THEN fromQuote ELSE fromRow

\* Number(x || 0)
numOrZero(m) == IF Has(m) THEN Val(m) ELSE 0

\* the nearest integer to a / b (b # 0), halves away from zero
roundQuot(a, b) ==
    LET n == Abs(a)
        d == Abs(b)
        q == (2 * n + d) \div (2 * d)
    IN  IF (a < 0) # (b < 0) THEN -q ELSE q

\* lines 10-15: the five numbers the table is computed from; NULL is NaN
simInputs(row, quote) ==
    [spot  |-> firstTruthy(row.spot, row.underlying_ltp, row.underlyingLtp),
     entry |-> row.entry_price,
     p0    |-> numOrZero(quoteOr(quote, IF Has(quote) THEN Val(quote).ltp ELSE NULL, row.ltp)),
     delta |-> numOrZero(quoteOr(quote, IF Has(quote) THEN Val(quote).delta ELSE NULL, row.delta)),
     gamma |-> numOrZero(quoteOr(quote, IF Has(quote) THEN Val(quote).gamma ELSE NULL,
                                 row.diag_gamma))]

\* variant: the guard forgets the current price
simRejectsWithoutP0(in) ==
    \/ ~Has(in.spot) \/ Val(in.spot) = 0
    \/ ~Has(in.entry) \/ Val(in.entry) = 0

\* line 17: !spot || !entry || !p0
simRejects(in) ==
    \/ ~Has(in.spot) \/ Val(in.spot) = 0
    \/ ~Has(in.entry) \/ Val(in.entry) = 0
    \/ in.p0 = 0

\* variant: the gamma term without its factor 0.5
simPriceEstFullGamma(p0, delta, gamma, dS2) ==
    80000 * p0 + 4000 * delta * dS2 + 2 * gamma * dS2 * dS2

\* line 27: p0 + delta*dS + 0.5*gamma*dS*dS, in 1/80000, for dS in halves
simPriceEst(p0, delta, gamma, dS2) ==
    80000 * p0 + 4000 * delta * dS2 + gamma * dS2 * dS2

\* lines 22-33: the row for one step
simTableRow(in, pct) ==
    LET spot2    == 200 * Val(in.spot)
        S2       == Val(in.spot) * (200 + pct)
        dS2      == S2 - spot2
        priceEst == simPriceEst(in.p0, in.delta, in.gamma, dS2)
        pnl      == priceEst - 80000 * Val(in.entry)
    IN  [pct |-> pct, S |-> S2, priceEst |-> priceEst, pnl |-> pnl,
         pnlPct |-> roundQuot(5 * pnl, 4 * Val(in.entry))]

\* lines 7-34: the memoised table
simTableOf(row, quote) ==
    IF ~Has(row) THEN <<>>
    ELSE LET in == simInputs(Val(row), quote)
         IN  IF simRejects(in) THEN <<>>
             ELSE [i \in DOMAIN simSteps |-> simTableRow(in, simSteps[i])]

\* lines 36-112: what the modal renders.  row.symbol (line 46) is read
\* whenever the modal is open
simRender(open, row, table) ==
    IF ~open THEN "closed"
    ELSE IF ~Has(row) THEN "threw"
    ELSE IF Len(table) = 0 THEN "not-enough-data"
    ELSE "table"

SimRowBlank ==
    [symbol |-> "NIFTY", spot |-> NULL, underlying_ltp |-> NULL, underlyingLtp |-> NULL,
     entry_price |-> NULL, ltp |-> NULL, delta |-> NULL, diag_gamma |-> NULL]

SimRows ==
    {[SimRowBlank EXCEPT !.spot = sp, !.underlying_ltp = ul, !.entry_price = en,
                         !.ltp = lt, !.delta = de, !.diag_gamma = ga] :
        sp \in {NULL, Some(0), Some(245)},
        ul \in {NULL, Some(244)},
        en \in {NULL, Some(0), Some(116)},
        lt \in {NULL, Some(0), Some(118)},
        de \in {NULL, Some(4)},
        ga \in {NULL, Some(3)}}

\* the quotes the table may hold for the row's symbol; ltp NULL is JSON null
SimQuotes ==
    {NULL,
     Some([ok |-> FALSE, ltp |-> NULL, delta |-> NULL, gamma |-> NULL]),
     Some([ok |-> TRUE, ltp |-> Some(0), delta |-> Some(5), gamma |-> Some(5)]),
     Some([ok |-> FALSE, ltp |-> Some(120), delta |-> NULL, gamma |-> NULL]),
     Some([ok |-> TRUE, ltp |-> Some(120), delta |-> Some(5), gamma |-> Some(5)])}

SimInit ==
    /\ simRow \in SimRows
    /\ modalRow = NULL /\ modalQuote = NULL
    /\ simTable = <<>>
    /\ simView = "closed"

SimIdle ==
    /\ simRow = SimRowBlank
    /\ modalRow = NULL /\ modalQuote = NULL
    /\ simTable = <<>>
    /\ simView = "closed"

\* the page renders after a state change (part_002 lines 231-239)
SimRenderWith(row, quote) ==
    /\ simTable' = simTableOf(row, quote)
    /\ simView' = simRender(Has(row), row, simTableOf(row, quote))

\* part_002 lines 181-189: a table row is clicked with the quote shown for it
SimRowClick(q) ==
    /\ modalRow' = Some(simRow)
    /\ modalQuote' = IF Has(q) /\ Has(Val(q).ltp)
                     THEN Some([Val(q) EXCEPT !.ok = TRUE])
                     ELSE NULL
    /\ SimRenderWith(modalRow', modalQuote')
    /\ UNCHANGED simRow
    /\ UNCHANGED simOthers

\* part_002 lines 233-236: the modal is closed
SimClose ==
    /\ Has(modalRow)
    /\ modalRow' = NULL
    /\ modalQuote' = NULL
    /\ SimRenderWith(NULL, NULL)
    /\ UNCHANGED simRow
    /\ UNCHANGED simOthers

SimNext ==
    \/ \E q \in SimQuotes : SimRowClick(q)
    \/ SimClose

(***************************************************************************)
(* RecoPage: the payoff modal (part_003 lines 338-340, 401-445, 481-546).  *)
(* Strike, spot, entry, ATR and last-traded price are whole numbers here,  *)
(* as computePayoffSeries takes them.                                      *)
(***************************************************************************)
\* r?.entry ?? r?.entry_price ?? null
getEntry(r) == IF Has(r.entry) THEN r.entry ELSE r.entry_price

\* r?.spot ?? r?.diagnostics?.spot ?? null
getSpot(r) == IF Has(r.spot) THEN r.spot ELSE r.diag_spot

\* r?.diagnostics?.atr_points ?? r?.diagnostics?.atrPoints ?? null
getAtrPoints(r) == IF Has(r.diag_atr_points) THEN r.diag_atr_points ELSE r.diag_atrPoints

\* the first operand of lines 412 and 433 (and PayoffModal.jsx line 52):
\* quote && quote.ok && Number.isFinite(Number(quote.ltp)) ? Number(quote.ltp)
\* : null.  Number(null) is 0, a finite number, so an ok quote whose ltp is
\* null gives 0
quoteLtp(quote) ==
    IF Has(quote) /\ Val(quote).ok
    THEN Some(IF Has(Val(quote).ltp) THEN Val(Val(quote).ltp) ELSE 0)
    ELSE NULL

\* lines 411-414 and 432-435
modalPremium(r, quote) == IF Has(quoteLtp(quote)) THEN quoteLtp(quote) ELSE getEntry(r)

\* lines 406-409 and 427-430
modalSpot(r) ==
    IF Has(getSpot(r)) THEN getSpot(r)
    ELSE IF Has(r.target_underlying) THEN r.target_underlying
    ELSE r.strike

\* the row as guessOptionSymbol reads it: the strike in tenths
strikeInTenths(r) == [r EXCEPT !.strike = IF Has(r.strike) THEN Some(10 * Val(r.strike)) ELSE NULL]

\* lines 401-419
payoffDataOf(row, quote) ==
    IF ~Has(row) THEN <<>>
    ELSE computePayoffSeries([side |-> Val(row).side, strike |-> Val(row).strike,
                              spot |-> modalSpot(Val(row)),
                              premium |-> modalPremium(Val(row), quote),
                              atrPoints |-> getAtrPoints(Val(row))])

\* lines 421-445
payoffMetaOf(row, quote) ==
    IF ~Has(row) THEN NULL
    ELSE Some([optSym  |-> guessOptionSymbol(strikeInTenths(Val(row)), "strict"),
               spot    |-> modalSpot(Val(row)),
               strike  |-> Val(row).strike,
               side    |-> Val(row).side,
               premium |-> modalPremium(Val(row), quote),
               sellBy  |-> getSellBy(Val(row)),
               expiry  |-> Val(row).expiry,
               symbol  |-> Val(row).symbol])

\* lines 155-156 and 504-544: what the Modal shows
modalBodyOf(open, meta) ==
    IF ~open THEN "closed"
    ELSE IF Has(meta) THEN "chart"
    ELSE "No selection."

\* the rows of the table
ModalRowBlank ==
    [symbol |-> "NIFTY", strike |-> Some(24500), side |-> "CE", expiry |-> "06-JAN-2026",
     expired |-> FALSE, entry |-> NULL, entry_price |-> NULL, spot |-> NULL,
     diag_spot |-> NULL, target_underlying |-> NULL, diag_atr_points |-> NULL,
     diag_atrPoints |-> NULL, sell_by |-> "", diag_sell_by |-> "", diag_sellBy |-> ""]

ModalRows ==
    {[ModalRowBlank EXCEPT !.entry = Some(120), !.spot = Some(24400),
                           !.diag_atr_points = Some(220), !.sell_by = "2026-01-02"],
     [ModalRowBlank EXCEPT !.side = "PE", !.entry_price = Some(95),
                           !.target_underlying = Some(24300)],
     \* no entry price in the row
     [ModalRowBlank EXCEPT !.symbol = "RELIANCE.NS", !.strike = Some(1300),
                           !.expiry = "27-JAN-2026", !.diag_spot = Some(1310)],
     [ModalRowBlank EXCEPT !.entry = Some(120), !.expired = TRUE],
     [ModalRowBlank EXCEPT !.entry = Some(120), !.side = ""],
     [ModalRowBlank EXCEPT !.entry = Some(120), !.strike = NULL],
     [ModalRowBlank EXCEPT !.entry = Some(120), !.strike = Some(0)]}

\* the quote the table holds for the clicked row: none, or { ok, ltp }
ModalQuotes ==
    {NULL,
     Some([ok |-> TRUE, ltp |-> Some(130)]),
     Some([ok |-> TRUE, ltp |-> NULL]),
     Some([ok |-> FALSE, ltp |-> NULL]),
     Some([ok |-> FALSE, ltp |-> Some(90)])}

\* one render of the page after its modal state changed
ModalRenderWith(open, row, quote) ==
    /\ payoffData' = payoffDataOf(row, quote)
    /\ payoffMeta' = payoffMetaOf(row, quote)
    /\ payoffBody' = modalBodyOf(open, payoffMetaOf(row, quote))

ModalInit ==
    /\ payoffOpen = FALSE /\ payoffRow = NULL /\ payoffQuote = NULL
    /\ payoffData = <<>> /\ payoffMeta = NULL /\ payoffBody = "closed"
    /\ lastClick = NULL /\ ignoredClick = NULL

ModalIdle ==
    /\ payoffOpen = FALSE /\ payoffRow = NULL /\ payoffQuote = NULL
    /\ payoffData = <<>> /\ payoffMeta = NULL /\ payoffBody = "closed"
    /\ lastClick = NULL /\ ignoredClick = NULL

\* lines 256-260 and 485-489: a click on row r of the table, whose quote is
\* q; the open modal's overlay (lines 158-159) covers the table
ModalRowClick(r, q) ==
    /\ ~payoffOpen
    /\ lastClick' = Some(r)
    /\ IF rowOpensPayoff(r)
       THEN /\ payoffRow' = Some(r)
            /\ payoffQuote' = q
            /\ payoffOpen' = TRUE
            /\ UNCHANGED ignoredClick
       ELSE /\ ignoredClick' = Some(r)
            /\ UNCHANGED <<payoffRow, payoffQuote, payoffOpen>>
    /\ ModalRenderWith(payoffOpen', payoffRow', payoffQuote')
    /\ UNCHANGED modalOthers

\* line 497: onClose
ModalClose ==
    /\ payoffOpen
    /\ payoffOpen' = FALSE
    /\ ModalRenderWith(FALSE, payoffRow, payoffQuote)
    /\ UNCHANGED <<payoffRow, payoffQuote, lastClick, ignoredClick>>
    /\ UNCHANGED modalOthers

ModalNext ==
    \/ \E r \in ModalRows, q \in ModalQuotes : ModalRowClick(r, q)
    \/ ModalClose

(***************************************************************************)
(* PayoffModal.jsx.  Prices of the range are in hundredths; a payoff of    *)
(* the plotted data is in units of 1/(100 * steps).                        *)
(***************************************************************************)
steps == 80

\* lines 20-34, for numbers S, K, P in one unit
payoffPerUnit(side, K, P, S) ==
    IF toUpperCase(side) = "CE" THEN Some(Max(0, S - K) - P)
    ELSE IF toUpperCase(side) = "PE" THEN Some(Max(0, K - S) - P)
    ELSE NULL

\* lines 36-42, in hundredths; spot is a Maybe and Number(null) is 0
buildRange(spot, strike) ==
    LET base == IF Has(spot) /\ Val(spot) > 0 THEN Val(spot) ELSE strike
        span == Max(20000, 6 * base)
    IN  [lo |-> Max(100, 100 * base - span), hi |-> 100 * base + span]

\* lines 51-54: Number(undefined) is NaN, so an absent entry is skipped
pmPremium(r, quote) ==
    IF Has(quoteLtp(quote)) THEN quoteLtp(quote)
    ELSE IF Has(r.entry) THEN r.entry
    ELSE r.entry_price

\* lines 57-60
pmSpot(r) ==
    IF Has(r.spot) THEN r.spot
    ELSE IF Has(r.diag_spot) THEN r.diag_spot
    ELSE r.strike

\* variant: the breakeven of a call for either side
breakevenAbove(side, K, P) == K + P

\* lines 75-76
breakevenOf(side, K, P) == IF toUpperCase(side) = "CE" THEN K + P ELSE K - P

\* lines 68-72: point i (0-based); S = lo + i * (hi - lo) / steps
pmPoint(side, K, P, range, i) ==
    LET den  == 100 * steps
        Snum == steps * range.lo + i * (range.hi - range.lo)
        pnl  == payoffPerUnit(side, den * K, den * P, Snum)
    IN  [S |-> (2 * Snum + den) \div (2 * den),
         pnl |-> IF Has(pnl) THEN Val(pnl) ELSE 0]

\* lines 45-79.  In the guard of line 62 Number(null) is 0, a finite number:
\* a premium found nowhere passes it and counts as 0
payloadOf(row, quote) ==
    IF ~Has(row) THEN NULL
    ELSE LET r       == Val(row)
             premium == pmPremium(r, quote)
         IN  IF r.side = "" \/ ~Has(r.strike) THEN NULL
             ELSE LET K     == Val(r.strike)
                      P     == IF Has(premium) THEN Val(premium) ELSE 0
                      range == buildRange(pmSpot(r), K)
                  IN  Some([side |-> r.side, strike |-> K, premium |-> P,
                            spot |-> pmSpot(r),
                            breakeven |-> breakevenOf(r.side, K, P),
                            data |-> [i \in 1..(steps + 1) |->
                                         pmPoint(r.side, K, P, range, i - 1)]])

\* lines 81 and 105-108
pmViewOf(open, row, payload) ==
    IF ~open \/ ~Has(row) THEN "none"
    ELSE IF ~Has(payload) THEN "Not enough data to simulate payoff"
    ELSE "chart"

PayoffModalRows ==
    ModalRows \cup {[ModalRowBlank EXCEPT !.side = "pe", !.strike = Some(300),
                                          !.entry = Some(0), !.spot = Some(150)]}

PayoffModalInit ==
    /\ pmIn \in [open : BOOLEAN, row : {NULL} \cup {Some(r) : r \in PayoffModalRows},
                 quote : ModalQuotes]
    /\ pmDone = FALSE
    /\ pmPayload = NULL
    /\ pmView = "none"

PayoffModalIdle ==
    /\ pmIn = [open |-> FALSE, row |-> NULL, quote |-> NULL]
    /\ pmDone = FALSE
    /\ pmPayload = NULL
    /\ pmView = "none"

\* lines 44-155: PayoffModal renders with its props
RenderPayoffModal ==
    /\ ~pmDone
    /\ pmDone' = TRUE
    /\ pmPayload' = payloadOf(pmIn.row, pmIn.quote)
    /\ pmView' = pmViewOf(pmIn.open, pmIn.row, payloadOf(pmIn.row, pmIn.quote))
    /\ UNCHANGED pmIn
    /\ UNCHANGED payoffModalOthers

PayoffModalNext == RenderPayoffModal

(***************************************************************************)
(* useLiveOptionQuotes                                                     *)
(* A JS object is a function from its keys; sig, the sorted "|"-joined     *)
(* list of distinct normalised symbols, is the set of those symbols.       *)
(***************************************************************************)
\* the most fetches the hook issues in a behaviour
MaxPolls == 3

EmptyObj == [k \in {} |-> NULL]

\* lines 79-82: null ("") for a falsy symbol, else trimmed, upper-cased,
\* first ".NS" removed
normSym(s) == IF s = "" THEN "" ELSE replaceDotNS(toUpperCase(trim(s)))

\* lines 108-114: the distinct non-empty normalised symbols
sigOf(symbols) ==
    {normSym(symbols[i]) : i \in DOMAIN symbols} \ {""}

\* lines 143-145: the response's data with its keys normalised
normalizeKeys(raw) ==
    [k \in {normSym(r) : r \in DOMAIN raw} |->
        raw[CHOOSE r \in DOMAIN raw : normSym(r) = k]]

\* the symbol lists the page may pass
QuoteSymbolLists ==
    {<<>>,
     <<"NIFTY06JAN2626100CE">>,
     <<" nifty06jan2626100ce", "RELIANCE.NS27JAN261300CE", "">>}

\* the data objects of successful responses
QuoteData ==
    {[k \in {"NIFTY06JAN2626100CE"} |-> [ok |-> TRUE, ltp |-> Some(120)]],
     [k \in {"nifty06jan2626100ce", "RELIANCE.NS27JAN261300CE"} |->
        IF k = "nifty06jan2626100ce" THEN [ok |-> TRUE, ltp |-> Some(125)]
        ELSE [ok |-> FALSE, ltp |-> NULL]]}

\* how a fetch ends: fetch() rejects; res.json() rejects; the server answers
\* an error whose JSON body has no data field; the server answers data
FailKinds == {"network-error", "unparsable-body", "error-response"}

PollOutcomes ==
    {[kind |-> k, data |-> EmptyObj] : k \in FailKinds}
        \cup {[kind |-> "ok", data |-> d] : d \in QuoteData}

\* a cleanup that leaves the interval running
clearedTimersKept(n, s) == n

\* lines 159-162: the cleanup of the effect that ran for signature s clears
\* its interval; the effect of an empty signature set none and returns no
\* cleanup
clearedTimers(n, s) == IF s # {} THEN n - 1 ELSE n

\* a fetch that stores its response whatever happened meanwhile
dropsResponseNever(req, alive) == FALSE

\* lines 147 and 152: the response of a fetch is discarded when the effect
\* that issued it was cleaned up or the hook unmounted
dropsResponse(req, alive) == req.stopped \/ ~alive

\* lines 123-164, the effect body for signature s; cleanup of the previous
\* effect has marked its fetches stopped and left `timers` intervals set
effectRuns(s, flight, timers) ==
    IF s = {}
    THEN /\ quotes' = EmptyObj
         /\ timer' = timers
         /\ inFlight' = flight
         /\ UNCHANGED <<loading, polls>>
    ELSE /\ loading' = TRUE
         /\ inFlight' = flight \cup {[id |-> polls + 1, options |-> s, stopped |-> FALSE]}
         /\ polls' = polls + 1
         /\ timer' = timers + 1
         /\ UNCHANGED quotes

\* lines 159-162: stopped = true in the closure of every fetch of the effect
stopAll(flight) == {[r EXCEPT !.stopped = TRUE] : r \in flight}

QuoteInit ==
    /\ \E l \in QuoteSymbolLists :
         /\ sig = sigOf(l)
         /\ quotes = EmptyObj
         /\ timer = IF sigOf(l) # {} THEN 1 ELSE 0
         /\ loading = (sigOf(l) # {})
         /\ polls = IF sigOf(l) # {} THEN 1 ELSE 0
         /\ inFlight = IF sigOf(l) # {}
                       THEN {[id |-> 1, options |-> sigOf(l), stopped |-> FALSE]}
                       ELSE {}
    /\ aliveRef = TRUE
    /\ lastGood = NULL
    /\ lastPoll = "none"
    /\ lastApplied = 0
    /\ newestApplied = 0
    /\ lastDropped = 0

QuoteIdle ==
    /\ sig = {} /\ quotes = EmptyObj /\ timer = 0 /\ loading = FALSE
    /\ polls = 0 /\ inFlight = {}
    /\ aliveRef = FALSE
    /\ lastGood = NULL
    /\ lastPoll = "none"
    /\ lastApplied = 0
    /\ newestApplied = 0
    /\ lastDropped = 0

\* the page renders with another symbol list: cleanup, then the effect
SymbolsChange(l) ==
    /\ aliveRef
    /\ sigOf(l) # sig
    /\ sigOf(l) # {} => polls < MaxPolls
    /\ sig' = sigOf(l)
    /\ effectRuns(sigOf(l), stopAll(inFlight), clearedTimers(timer, sig))
    /\ lastGood' = NULL
    /\ lastPoll' = "none"
    /\ UNCHANGED <<aliveRef, lastApplied, newestApplied, lastDropped>>
    /\ UNCHANGED quoteOthers

\* line 164: the page renders with another as-of date (or interval) and the
\* same symbols: cleanup, then the effect
AsOfChanges ==
    /\ aliveRef
    /\ sig # {} => polls < MaxPolls
    /\ effectRuns(sig, stopAll(inFlight), clearedTimers(timer, sig))
    /\ UNCHANGED <<aliveRef, sig, lastGood, lastPoll, lastApplied, newestApplied,
                   lastDropped>>
    /\ UNCHANGED quoteOthers

\* line 157: the interval fires fetchQuotes
TimerFires ==
    /\ timer > 0
    /\ polls < MaxPolls
    /\ loading' = TRUE
    /\ inFlight' = inFlight \cup {[id |-> polls + 1, options |-> sig, stopped |-> FALSE]}
    /\ polls' = polls + 1
    /\ UNCHANGED <<quotes, aliveRef, sig, timer, lastGood, lastPoll, lastApplied,
                   newestApplied, lastDropped>>
    /\ UNCHANGED quoteOthers

\* lines 140-154: the rest of fetchQuotes once the fetch of req has ended
PollEnds(req, out) ==
    /\ req \in inFlight
    /\ inFlight' = inFlight \ {req}
    /\ IF dropsResponse(req, aliveRef)
       THEN /\ lastDropped' = req.id
            /\ UNCHANGED <<quotes, loading, lastGood, lastPoll, lastApplied,
                           newestApplied>>
       ELSE /\ loading' = FALSE
            /\ lastPoll' = out.kind
            /\ IF out.kind \in {"network-error", "unparsable-body"}
               THEN UNCHANGED <<quotes, lastGood>>
               ELSE /\ quotes' = normalizeKeys(out.data)
                    /\ lastGood' = IF out.kind = "ok"
                                   THEN Some(normalizeKeys(out.data))
                                   ELSE lastGood
            /\ IF out.kind = "ok"
               THEN /\ lastApplied' = req.id
                    /\ newestApplied' = Max(newestApplied, req.id)
               ELSE UNCHANGED <<lastApplied, newestApplied>>
            /\ UNCHANGED lastDropped
    /\ UNCHANGED <<aliveRef, sig, timer, polls>>
    /\ UNCHANGED quoteOthers

\* lines 118-120 and 159-162: the cleanups at unmount
Unmount ==
    /\ aliveRef
    /\ aliveRef' = FALSE
    /\ timer' = clearedTimers(timer, sig)
    /\ inFlight' = stopAll(inFlight)
    /\ UNCHANGED <<quotes, loading, sig, polls, lastGood, lastPoll, lastApplied,
                   newestApplied, lastDropped>>
    /\ UNCHANGED quoteOthers

QuoteNext ==
    \/ \E l \in QuoteSymbolLists : SymbolsChange(l)
    \/ AsOfChanges
    \/ TimerFires
    \/ \E req \in inFlight, out \in PollOutcomes : PollEnds(req, out)
    \/ Unmount

(***************************************************************************)
(* RecoPage: the symbols handed to the polling hook                        *)
(***************************************************************************)
\* String.prototype.replace(/-/g, "")
RECURSIVE removeDashes(_)
removeDashes(s) ==
    IF Len(s) = 0 THEN ""
    ELSE (IF CharAt(s, 1) = "-" THEN "" ELSE CharAt(s, 1))
             \o removeDashes(SubSeq(s, 2, Len(s)))

\* lines 113-117; "" stands for null
guessCommodityKey(r) ==
    IF r.symbol = "" \/ r.expiry = "" THEN ""
    ELSE "MCXFUT:" \o toUpperCase(r.symbol) \o ":"
            \o substring(removeDashes(r.expiry), 2, Len(r.expiry))

\* lines 369-372: the key under which row r is polled; "" stands for null
pollKey(r, engine) ==
    IF r.instrument = "OPTION"
    THEN (IF Has(guessOptionSymbol(r, engine)) THEN Val(guessOptionSymbol(r, engine))
          ELSE "")
    ELSE guessCommodityKey(r)

\* lines 368-374
optionSymbols(raw, engine) == [i \in DOMAIN raw |-> pollKey(raw[i], engine)]

\* line 378 with lines 108-114 of the hook: the symbols the hook polls
polledSymbols(raw, engine) == sigOf(optionSymbols(raw, engine))

\* lines 207-209: the key under which the table reads the quote of row r
tableQuoteKey(r, engine) == guessOptionSymbol(r, engine)

(***************************************************************************)
(* CommodityRecoPage (_CommodityRecoPage.jsx): the sell-by invalidation of *)
(* the commodity rows.  ymdToNum and todayYmd are the same functions as in *)
(* RecoPage.                                                               *)
(***************************************************************************)
CmRow(sym, act, sb) == [symbol |-> sym, action |-> act, sell_by |-> sb, expired |-> FALSE]

\* the report the backend serves for an as-of date
CmReport(d) ==
    IF d = "2025-12-18"
    THEN <<CmRow("GOLD", "BUY", "2025-12-19"), CmRow("SILVER", "SELL", "2025-12-18")>>
    ELSE IF d = "2025-12-19"
    THEN <<CmRow("GOLDM", "BUY", "2025-12-20"), CmRow("CRUDEOIL", "BUY", "")>>
    ELSE <<CmRow("GOLD", "SELL", "2026-01-05")>>

\* lines 130-137: every row flagged against todayYmd()
commodityRows(rowsRaw_, clk) ==
    LET today == ymdToNum(todayYmd(clk))
    IN  [i \in DOMAIN rowsRaw_ |->
            [rowsRaw_[i] EXCEPT !.expired = isExpired(today, ymdToNum(rowsRaw_[i].sell_by))]]

expiredFlags(rs) == [i \in DOMAIN rs |-> rs[i].expired]

CmInit ==
    /\ cmAsOf = "" /\ cmData = NULL /\ cmRows = <<>>
    /\ cmClock \in {1}
    /\ cmDatesPending = TRUE /\ cmFetching = FALSE
    /\ cmShown = ""
    /\ cmSeen = [d \in AsOfDates |-> NULL]

CmIdle ==
    /\ cmAsOf = "" /\ cmData = NULL /\ cmRows = <<>>
    /\ cmClock = 1
    /\ cmDatesPending = FALSE /\ cmFetching = FALSE
    /\ cmShown = ""
    /\ cmSeen = [d \in AsOfDates |-> NULL]

\* lines 109-117: the dates request resolves
CmDatesLoaded(l) ==
    /\ cmDatesPending
    /\ cmDatesPending' = FALSE
    /\ cmAsOf' = IF cmAsOf = "" /\ l # "" THEN l ELSE cmAsOf
    /\ cmFetching' = (cmFetching \/ cmAsOf' # cmAsOf)
    /\ UNCHANGED <<cmData, cmRows, cmClock, cmShown, cmSeen>>
    /\ UNCHANGED commodityOthers

\* line 151 and lines 121-127: another as-of date is selected
CmSetAsOf(d) ==
    /\ ~cmDatesPending
    /\ d # cmAsOf
    /\ cmAsOf' = d
    /\ cmFetching' = TRUE
    /\ UNCHANGED <<cmData, cmRows, cmClock, cmDatesPending, cmShown, cmSeen>>
    /\ UNCHANGED commodityOthers

\* lines 123-125 and 129-137: the report arrives and the rows are evaluated
CmDataArrives ==
    /\ cmFetching
    /\ cmFetching' = FALSE
    /\ cmData' = Some(CmReport(cmAsOf))
    /\ cmRows' = commodityRows(CmReport(cmAsOf), ClockDays[cmClock])
    /\ cmShown' = cmAsOf
    /\ cmSeen' = IF Has(cmSeen[cmAsOf]) THEN cmSeen
                 ELSE [cmSeen EXCEPT ![cmAsOf] = Some(expiredFlags(cmRows'))]
    /\ UNCHANGED <<cmAsOf, cmClock, cmDatesPending>>
    /\ UNCHANGED commodityOthers

\* line 126: the report request fails; rowsRaw is []
CmDataFails ==
    /\ cmFetching
    /\ cmFetching' = FALSE
    /\ cmData' = NULL
    /\ cmRows' = commodityRows(<<>>, ClockDays[cmClock])
    /\ cmShown' = ""
    /\ UNCHANGED <<cmAsOf, cmClock, cmDatesPending, cmSeen>>
    /\ UNCHANGED commodityOthers

\* midnight passes; the memo of line 130 keeps the rows
CmClockTick ==
    /\ cmClock < Len(ClockDays)
    /\ cmClock' = cmClock + 1
    /\ UNCHANGED <<cmAsOf, cmData, cmRows, cmDatesPending, cmFetching, cmShown, cmSeen>>
    /\ UNCHANGED commodityOthers

CmNext ==
    \/ \E l \in {"", "2025-12-19"} : CmDatesLoaded(l)
    \/ \E d \in AsOfDates : CmSetAsOf(d)
    \/ CmDataArrives
    \/ CmDataFails
    \/ CmClockTick

InitSym == SymInit /\ PageIdle /\ PayoffIdle /\ SimIdle /\ QuoteIdle /\ CmIdle
    /\ ModalIdle /\ PayoffModalIdle

SpecSym == InitSym /\ [][SymNext]_vars

InitPage == PageInit /\ SymIdle /\ PayoffIdle /\ SimIdle /\ QuoteIdle /\ CmIdle
    /\ ModalIdle /\ PayoffModalIdle

SpecPage == InitPage /\ [][PageNext]_vars

InitPayoff == PayoffInit /\ SymIdle /\ PageIdle /\ SimIdle /\ QuoteIdle /\ CmIdle
    /\ ModalIdle /\ PayoffModalIdle

SpecPayoff == InitPayoff /\ [][PayoffNext]_vars

InitSim == SimInit /\ SymIdle /\ PageIdle /\ PayoffIdle /\ QuoteIdle /\ CmIdle
    /\ ModalIdle /\ PayoffModalIdle

SpecSim == InitSim /\ [][SimNext]_vars

InitQuotes == QuoteInit /\ SymIdle /\ PageIdle /\ PayoffIdle /\ SimIdle /\ CmIdle
    /\ ModalIdle /\ PayoffModalIdle

SpecQuotes == InitQuotes /\ [][QuoteNext]_vars

InitCommodity == CmInit /\ SymIdle /\ PageIdle /\ PayoffIdle /\ SimIdle /\ QuoteIdle
    /\ ModalIdle /\ PayoffModalIdle

SpecCommodity == InitCommodity /\ [][CmNext]_vars

InitModal ==
    ModalInit /\ SymIdle /\ PageIdle /\ PayoffIdle /\ SimIdle /\ QuoteIdle /\ CmIdle
        /\ PayoffModalIdle

SpecModal == InitModal /\ [][ModalNext]_vars

InitPayoffModal ==
    PayoffModalInit /\ SymIdle /\ PageIdle /\ PayoffIdle /\ SimIdle /\ QuoteIdle /\ CmIdle
        /\ ModalIdle

SpecPayoffModal == InitPayoffModal /\ [][PayoffModalNext]_vars

\* C2: for the same ticker, strike and side, the DD-MON-YYYY and the ISO
\* spelling of one expiry date resolve to the same identifier.
C2_FormatInvariant ==
    (symOut.DMY.done /\ symOut.ISO.done) => symOut.DMY.val = symOut.ISO.val

\* the expiry text guessOptionSymbol was given in each resolution
ExpiryGiven(f) ==
    IF f = "DMY" THEN FmtDMY(Val(symDate))
    ELSE IF f = "ISO" THEN FmtISO(Val(symDate))
    ELSE symIn.expiry

\* DD-MON-YYYY: one or two digits, a month abbreviation, four digits
IsDMYText(s) ==
    LET p == split(toUpperCase(trim(s)), "-")
    IN  /\ Len(p) = 3
        /\ Len(p[1]) \in 1..2 /\ IsDigits(p[1])
        /\ \E m \in DOMAIN months : months[m] = p[2]
        /\ Len(p[3]) = 4 /\ IsDigits(p[3])

\* ISO YYYY-MM-DD
IsISOText(s) ==
    LET p == split(trim(s), "-")
    IN  /\ Len(p) = 3
        /\ Len(p[1]) = 4 /\ IsDigits(p[1])
        /\ Len(p[2]) = 2 /\ IsDigits(p[2])
        /\ Len(p[3]) = 2 /\ IsDigits(p[3])

\* ticker, side or expiry missing, or strike missing (undefined or 0)
FieldMissing(f) ==
    \/ symIn.symbol = "" \/ symIn.side = "" \/ ExpiryGiven(f) = ""
    \/ ~Has(symIn.strike) \/ Val(symIn.strike) = 0

SymForms == {f \in {"DMY", "ISO", "RAW"} : symOut[f].done}

\* C13: guessOptionSymbol returns null when any of ticker, strike, side or
\* expiry is missing, and when the expiry text is neither DD-MON-YYYY nor
\* ISO YYYY-MM-DD (for example other text of three dash-separated parts).
C13_NullWhenUnresolvable ==
    \A f \in SymForms :
        (FieldMissing(f) \/ ~(IsDMYText(ExpiryGiven(f)) \/ IsISOText(ExpiryGiven(f))))
            => symOut[f].val = NULL

\* the upper-cased ticker without its .NS suffix
TickerOf(s) ==
    LET u == toUpperCase(s)
    IN  IF Len(u) >= 3 /\ SubSeq(u, Len(u) - 2, Len(u)) = ".NS"
        THEN SubSeq(u, 1, Len(u) - 3) ELSE u

\* DDMONYY of a calendar date
DDMONYY(dt) ==
    (IF dt.d < 10 THEN "0" ELSE "") \o NatStr(dt.d) \o months[dt.m]
        \o NatStr((dt.y % 100) \div 10) \o NatStr(dt.y % 10)

\* C17: for an expiry written DD-MON-YYYY and all four fields present the
\* identifier is TICKER + DDMONYY + STRIKE + SIDE: ticker upper-cased with
\* .NS stripped, strike rounded to the nearest integer (half up) in plain
\* digits, side upper-cased.
C17_SymbolFormat ==
    (symOut.DMY.done /\ ~FieldMissing("DMY")) =>
        symOut.DMY.val =
            Some(TickerOf(symIn.symbol) \o DDMONYY(Val(symDate))
                   \o NatStr((Val(symIn.strike) + 5) \div 10)
                   \o toUpperCase(symIn.side))

\* a lower-case .NS ticker with a fractional strike and a lower-case side
C17_Witness ==
    /\ symOut.DMY.done
    /\ symIn.symbol = "reliance.ns" /\ symIn.strike = Some(245005) /\ symIn.side = "pe"
    /\ symDate = Some([y |-> 2026, m |-> 1, d |-> 6])
    /\ symOut.DMY.val = Some("RELIANCE06JAN2624501PE")

(***************************************************************************)
(* Properties of pickOptionsRows and of the ranked rows                    *)
(***************************************************************************)
HasReviewer(p) == p.kind = "object" /\ Has(p.reviewer)

RecommenderOf(p) == IF Has(p.recommender) THEN Val(p.recommender) ELSE <<>>

RowKeys(rs) == {rowKey(rs[i]) : i \in DOMAIN rs}

\* C1: for a payload with a reviewer section, every candidate of the
\* recommender list appears (by identity key) in the rows pickOptionsRows
\* returned: no candidate is dropped.
C1_NoCandidateDropped ==
    HasReviewer(data) => RowKeys(RecommenderOf(data)) \subseteq RowKeys(rowsRaw)

\* the rank at which input row i is shown
RankOf(i) == CHOOSE k \in DOMAIN rowsPerm : rowsPerm[k] = i

\* C4: adjacent ranked rows are ordered by tier descending and, within a
\* tier, by confidence descending.
C4_RankedOrder ==
    \A k \in 1..(Len(rows) - 1) :
        \/ statusOf(rows[k]) > statusOf(rows[k + 1])
        \/ /\ statusOf(rows[k]) = statusOf(rows[k + 1])
           /\ confOf(rows[k]) >= confOf(rows[k + 1])

\* three or more rows of two tiers, which the sort had to reorder
C4_Witness ==
    /\ Len(rows) >= 3
    /\ \E k \in DOMAIN rows : statusOf(rows[k]) # statusOf(rows[1])
    /\ \E k \in DOMAIN rowsPerm : rowsPerm[k] # k

\* C5: the ranked list is a permutation of the input rows in which two rows
\* of equal tier and equal confidence keep their input order.
C5_StableRanking ==
    /\ Len(rowsPerm) = Len(rowsRaw) /\ Len(rows) = Len(rowsRaw)
    /\ \A i \in DOMAIN rowsRaw : \E k \in DOMAIN rowsPerm : rowsPerm[k] = i
    /\ \A k \in DOMAIN rows : rowKey(rows[k]) = rowKey(rowsRaw[rowsPerm[k]])
    /\ \A i, j \in DOMAIN rowsRaw :
          (/\ i < j
           /\ statusOf(rowsRaw[i]) = statusOf(rowsRaw[j])
           /\ confOf(rowsRaw[i]) = confOf(rowsRaw[j])) => RankOf(i) < RankOf(j)

\* two tied rows, and a later input row ranked above both
C5_Witness ==
    \E i, j, h \in DOMAIN rowsRaw :
        /\ i < j /\ j < h
        /\ statusOf(rowsRaw[i]) = statusOf(rowsRaw[j])
        /\ confOf(rowsRaw[i]) = confOf(rowsRaw[j])
        /\ RankOf(h) < RankOf(i)

\* a well-formed YYYY-MM-DD calendar date
IsYmd(s) ==
    /\ Has(ymdToNum(s))
    /\ DigitsVal(SubSeq(trim(s), 6, 7)) \in 1..12
    /\ DigitsVal(SubSeq(trim(s), 9, 10)) \in 1..31

\* date a is chronologically after date b (year, then month, then day)
ChronoLater(a, b) ==
    LET Y(s) == DigitsVal(SubSeq(trim(s), 1, 4))
        M(s) == DigitsVal(SubSeq(trim(s), 6, 7))
        D(s) == DigitsVal(SubSeq(trim(s), 9, 10))
    IN  \/ Y(a) > Y(b)
        \/ Y(a) = Y(b) /\ M(a) > M(b)
        \/ Y(a) = Y(b) /\ M(a) = M(b) /\ D(a) > D(b)

EffectiveToday == effectiveToday(asOf, latest, clock)

\* C6: with both dates valid, a row is flagged expired exactly when the
\* effective-today date is chronologically later than its sell-by date; on
\* the sell-by day itself it is not expired.
C6_ExpiredIffLater ==
    \A k \in DOMAIN rows :
        (IsYmd(EffectiveToday) /\ IsYmd(rows[k].sell_by)) =>
            (rows[k].expired <=> ChronoLater(EffectiveToday, rows[k].sell_by))

\* a row shown on its sell-by day (valid) next to a row past its sell-by
C6_Witness ==
    /\ \E k \in DOMAIN rows : rows[k].sell_by = EffectiveToday /\ ~rows[k].expired
    /\ \E k \in DOMAIN rows : rows[k].expired
    /\ \E k \in DOMAIN rows : IsYmd(rows[k].sell_by) /\ ~rows[k].expired
                                /\ rows[k].sell_by # EffectiveToday

\* C11: pickOptionsRows leaves its payload unchanged (the payload in state
\* is still the one the backend served), and calling it again on the same
\* payload returns the rows of the first call, marks included.
C11_PickIsPure ==
    /\ data.kind # "null" => data = backend
    /\ pickOptionsRows(data) = rowsRaw

C14_NoWallClock ==
    (cmShown # "" /\ Has(cmSeen[cmShown])) => expiredFlags(cmRows) = Val(cmSeen[cmShown])

\* C15: invalidation keeps one row per input row; every field the input
\* row carries is unchanged on the output row (the action included; sell_by
\* is only filled in when the row had none); an expired row is flagged and
\* its badge shows HOLD.
C15_InvalidationRetains ==
    /\ Len(rows) = Len(rowsRaw)
    /\ \A i \in DOMAIN rowsRaw : \E k \in DOMAIN rowsPerm : rowsPerm[k] = i
    /\ \A k \in DOMAIN rows :
          LET src == rowsRaw[rowsPerm[k]]
          IN  /\ rows[k] = [src EXCEPT !.expired = rows[k].expired,
                                        !.sell_by = IF src.sell_by # "" THEN src.sell_by
                                                    ELSE rows[k].sell_by]
              /\ rows[k].action = src.action
              /\ rows[k].expired => badgeAction(rows[k]) = "HOLD"
              /\ ~rows[k].expired => badgeAction(rows[k]) = src.action

\* an expired row whose own action is BUY, next to a row that is not expired
C15_Witness ==
    /\ \E k \in DOMAIN rows : rows[k].expired /\ rows[k].action = "BUY"
    /\ \E k \in DOMAIN rows : ~rows[k].expired /\ rows[k].action = "SELL"

ScoreOf(r) ==
    IF Has(r.confidence) THEN Val(r.confidence)
    ELSE IF Has(r.p_up) THEN Val(r.p_up) ELSE 0

\* C19: within a tier the ranked rows are ordered by confidence, or by the
\* probability score p_up when the confidence is absent, descending.
C19_ScoreFallback ==
    \A k \in 1..(Len(rows) - 1) :
        statusOf(rows[k]) = statusOf(rows[k + 1]) => ScoreOf(rows[k]) >= ScoreOf(rows[k + 1])

\* the candidates of the backend's reviewer.rejected list
RejectedOf(p) ==
    IF HasReviewer(p) /\ Has(Val(p.reviewer).rejected) THEN Val(Val(p.reviewer).rejected)
    ELSE <<>>

\* C20: a candidate without a side stays in the ranked rows (one ranked row
\* per merged row without side), resolves to no symbol, never opens the
\* payoff computation, and when the reviewer rejected it, it is shown
\* rejected with the reviewer's reason.
C20_MissingSide ==
    /\ \A i \in DOMAIN rowsRaw :
          rowsRaw[i].side = "" => rows[RankOf(i)] = invalidateRow(rowsRaw[i],
                                      ymdToNum(effectiveToday(asOf, latest, clock)))
    /\ \A k \in DOMAIN rows :
          rows[k].side = "" =>
              /\ \A e \in {"strict", "lenient"} : guessOptionSymbol(rows[k], e) = NULL
              /\ ~rowOpensPayoff(rows[k])
    /\ (data.kind = "object" /\ data = payloadAfterPick(backend)) =>
          \A j \in DOMAIN RejectedOf(backend) :
              (/\ RejectedOf(backend)[j].side = ""
               /\ \E i \in DOMAIN RecommenderOf(backend) :
                      rowKey(RecommenderOf(backend)[i]) = rowKey(RejectedOf(backend)[j]))
                  => \E k \in DOMAIN rows :
                         /\ rowKey(rows[k]) = rowKey(RejectedOf(backend)[j])
                         /\ rows[k].reviewerRejected
                         /\ rows[k].rejectionReason = RejectedOf(backend)[j].reason

\* the candidate without side, rejected by the reviewer, ranked among others
C20_Witness ==
    /\ Len(rows) >= 3
    /\ \E k \in DOMAIN rows :
          /\ rows[k].side = "" /\ rows[k].symbol = "TCS"
          /\ rows[k].reviewerRejected
          /\ rows[k].rejectionReason = "insufficient data for side"

(***************************************************************************)
(* Properties of computePayoffSeries                                       *)
(***************************************************************************)
PositiveNumber(m) == Has(m) /\ Val(m) > 0

\* the window the series spans, in hundredths: its first and last price
SeriesWindow == [low |-> pfOut[1].S, high |-> pfOut[Len(pfOut)].S]

HundredthsOfTenths(w) == [low |-> 10 * w.low, high |-> 10 * w.high]

\* C7 as stated: (a) ATR positive and spot known: S0 -/+ 2.2A; (b) spot
\* known: 0.9*S0 .. 1.1*S0; (c) spot absent, whatever the ATR:
\* 0.9*K .. 1.1*K; the lower bound clamped at 0.
C7_WindowAsStated ==
    (pfDone /\ pfOut # <<>>) =>
        LET K == Val(pfIn.strike)
            A == pfIn.atrPoints
            S == pfIn.spot
        IN  SeriesWindow = HundredthsOfTenths(
                IF PositiveNumber(A) /\ PositiveNumber(S)
                THEN [low |-> Max(0, 10 * Val(S) - 22 * Val(A)),
                      high |-> 10 * Val(S) + 22 * Val(A)]
                ELSE IF PositiveNumber(S)
                THEN [low |-> Max(0, 9 * Val(S)), high |-> 11 * Val(S)]
                ELSE [low |-> Max(0, 9 * K), high |-> 11 * K])

\* C7 amended: the reference R is the spot when it is given and not zero,
\* else the strike K.  (a) ATR positive and R > 0: R -/+ 2.2A; (b) else
\* R > 0: 0.9*R .. 1.1*R; (c) else 0.9*K .. 1.1*K; the lower bound clamped
\* at 0.
C7_WindowWithStrikeFallback ==
    (pfDone /\ pfOut # <<>>) =>
        LET K == Val(pfIn.strike)
            A == pfIn.atrPoints
            R == IF Has(pfIn.spot) /\ Val(pfIn.spot) # 0 THEN Val(pfIn.spot) ELSE K
        IN  SeriesWindow = HundredthsOfTenths(
                IF PositiveNumber(A) /\ R > 0
                THEN [low |-> Max(0, 10 * R - 22 * Val(A)), high |-> 10 * R + 22 * Val(A)]
                ELSE IF R > 0
                THEN [low |-> Max(0, 9 * R), high |-> 11 * R]
                ELSE [low |-> Max(0, 9 * K), high |-> 11 * K])

\* a series computed with no spot, a positive ATR and a positive strike
C7_Witness ==
    /\ pfDone /\ pfOut # <<>>
    /\ ~Has(pfIn.spot) /\ PositiveNumber(pfIn.atrPoints) /\ PositiveNumber(pfIn.strike)
    /\ SeriesWindow.low = 100 * Val(pfIn.strike) - 220 * Val(pfIn.atrPoints)

\* C8: the series is empty exactly when the strike or the premium is not a
\* finite positive number.
C8_EmptyIffNotPositive ==
    pfDone => (pfOut = <<>> <=> ~(PositiveNumber(pfIn.strike) /\ PositiveNumber(pfIn.premium)))

SimSpot == firstTruthy(simRow.spot, simRow.underlying_ltp, simRow.underlyingLtp)

SimEntry == simRow.entry_price

SimLive == Has(modalQuote) /\ Val(modalQuote).ok

SimP0 == IF SimLive THEN Val(modalQuote).ltp ELSE simRow.ltp

SimDelta ==
    LET m == IF SimLive THEN Val(modalQuote).delta ELSE simRow.delta
    IN  IF Has(m) THEN Val(m) ELSE 0

SimGamma ==
    LET m == IF SimLive THEN Val(modalQuote).gamma ELSE simRow.diag_gamma
    IN  IF Has(m) THEN Val(m) ELSE 0

MissingOrZero(m) == ~Has(m) \/ Val(m) = 0

\* C9: in every row of the table, with dS = S0 * move: estimated price =
\* P0 + delta*dS + 0.5*gamma*dS^2, pnl = estimated price - entry, and
\* pnl percent = pnl / entry * 100 (delta, gamma 0 when absent).
\* dS is in halves, prices in 1/80000, the percent in thousandths.
C9_ScenarioRow ==
    \A i \in DOMAIN simTable :
        LET move == simSteps[i]
            dS2  == Val(SimSpot) * move
            est  == 80000 * Val(SimP0) + 4000 * SimDelta * dS2 + SimGamma * dS2 * dS2
            pnl  == est - 80000 * Val(SimEntry)
        IN  /\ simTable[i].pct = move
            /\ simTable[i].priceEst = est
            /\ simTable[i].pnl = pnl
            /\ 2 * Abs(simTable[i].pnlPct * 4 * Val(SimEntry) - 5 * pnl)
                   <= 4 * Abs(Val(SimEntry))

\* the worked example: spot 24500, entry 116, price 120, delta 0.5, gamma
\* 0.0005; the +1% row is 257.50625, 141.50625 and 121.988%
C9_Witness ==
    /\ Len(simTable) = 9
    /\ SimSpot = Some(245) /\ SimEntry = Some(116) /\ SimP0 = Some(120)
    /\ SimDelta = 5 /\ SimGamma = 5
    /\ simTable[7].priceEst = 20600500
    /\ simTable[7].pnl = 11320500
    /\ simTable[7].pnlPct = 121988

\* C10: the table is empty when spot, entry or current price is missing or
\* zero and has the nine rows in ascending move order otherwise; an open
\* modal with an empty table shows the not-enough-data row; nothing throws.
C10_EmptyOrNine ==
    /\ simView # "threw"
    /\ Has(modalRow) =>
          /\ (MissingOrZero(SimSpot) \/ MissingOrZero(SimEntry) \/ MissingOrZero(SimP0))
                => (simTable = <<>> /\ simView = "not-enough-data")
          /\ ~(MissingOrZero(SimSpot) \/ MissingOrZero(SimEntry) \/ MissingOrZero(SimP0))
                => /\ Len(simTable) = 9
                   /\ \A i \in 1..8 : simTable[i].pct < simTable[i + 1].pct
                   /\ simView = "table"
    /\ ~Has(modalRow) => (simTable = <<>> /\ simView = "closed")

\* an open modal whose only missing input is the current price
C10_Witness ==
    /\ Has(modalRow)
    /\ ~MissingOrZero(SimSpot) /\ ~MissingOrZero(SimEntry) /\ MissingOrZero(SimP0)
    /\ simView = "not-enough-data"

(***************************************************************************)
(* Properties of the live quotes                                           *)
(***************************************************************************)
\* C3: while the polled symbol set is unchanged and non-empty, after a poll
\* that failed (network error, unparsable body or error response) the
\* quotes are still the snapshot of the last successful poll.
C3_FailedPollKeepsQuotes ==
    (sig # {} /\ lastPoll \in FailKinds /\ Has(lastGood)) => quotes = Val(lastGood)

\* C26: when the responses of overlapping polls arrive out of order, the
\* snapshot in quotes is that of the later-issued poll: the poll whose data
\* were stored last is the newest poll whose data were ever stored.
C26_NewestPollWins == lastApplied = newestApplied

\* C27: the response of a fetch whose effect was cleaned up (symbol set,
\* interval or as-of date changed, or the hook unmounted) before it arrived
\* leaves quotes as they were.
C27_StaleResponseIgnored ==
    [][\A req \in inFlight :
          ((req.stopped \/ ~aliveRef) /\ inFlight' = inFlight \ {req})
              => quotes' = quotes]_vars

\* a stale response was discarded while the hook, still mounted, held quotes
C27_Witness == lastDropped > 0 /\ aliveRef /\ quotes # EmptyObj

\* C28: at most one interval timer is set; none is set after unmount or
\* while the symbol set is empty; and while the symbol set is empty the
\* quotes are the empty object.
C28_OneTimer ==
    /\ timer <= 1
    /\ ~aliveRef => timer = 0
    /\ sig = {} => (timer = 0 /\ quotes = EmptyObj)

\* the symbol set became empty after a snapshot had been stored
C28_Witness == sig = {} /\ aliveRef /\ newestApplied > 0 /\ timer = 0

\* C22: every row marked rejected in the merged list (and in the ranked
\* rows) carries the reason that the reviewer's rejected list gives for
\* the row's identity key.
C22_RejectionReason ==
    /\ \A i \in DOMAIN rowsRaw :
          rowsRaw[i].reviewerRejected =>
              \E j \in DOMAIN RejectedOf(data) :
                  /\ rowKey(RejectedOf(data)[j]) = rowKey(rowsRaw[i])
                  /\ RejectedOf(data)[j].reason = rowsRaw[i].rejectionReason
    /\ \A k \in DOMAIN rows :
          rows[k].reviewerRejected =>
              \E j \in DOMAIN RejectedOf(data) :
                  /\ rowKey(RejectedOf(data)[j]) = rowKey(rows[k])
                  /\ RejectedOf(data)[j].reason = rows[k].rejectionReason

\* two rejected rows with different reasons are shown
C22_Witness ==
    \E k1, k2 \in DOMAIN rows :
        /\ rows[k1].reviewerRejected /\ rows[k2].reviewerRejected
        /\ rows[k1].rejectionReason # rows[k2].rejectionReason

\* C25: for every row whose option symbol resolves, that symbol (the key
\* under which the table reads the row's quote) is among the symbols the
\* polling hook is given, whatever the row's instrument field.
C25_TableKeyIsPolled ==
    \A k \in DOMAIN rows : \A e \in {"strict", "lenient"} :
        Has(tableQuoteKey(rows[k], e)) =>
            Val(tableQuoteKey(rows[k], e)) \in polledSymbols(rowsRaw, e)

\* payoffPerUnit over a grid of prices around two strikes: never below -P,
\* -P on the out-of-the-money side, monotone in the price
PerUnitGrid == 0..40

PerUnitShape ==
    \A K \in {10, 25}, P \in {0, 3} : \A S, T \in PerUnitGrid :
        LET ce(x) == Val(payoffPerUnit("CE", K, P, x))
            pe(x) == Val(payoffPerUnit("PE", K, P, x))
        IN  /\ ce(S) >= -P /\ pe(S) >= -P
            /\ S <= K => ce(S) = -P
            /\ S >= K => pe(S) = -P
            /\ S <= T => (ce(S) <= ce(T) /\ pe(S) >= pe(T))

\* C29: in a non-empty payoff series with strike K and premium P every
\* point's payoff is at least -P and is exactly -P where the price is on
\* the out-of-the-money side of the strike (S <= K for CE, S >= K for PE);
\* the payoff never falls as S rises for CE and never rises as S rises for
\* PE.  payoffPerUnit has the same shape.
C29_LossBoundedByPremium ==
    (pfDone /\ pfOut # <<>>) =>
        LET K == 100 * Val(pfIn.strike)
            P == 100 * Val(pfIn.premium)
        IN  /\ \A i \in DOMAIN pfOut :
                  /\ pfOut[i].pnl >= -P
                  /\ (pfIn.side = "CE" /\ pfOut[i].S <= K) => pfOut[i].pnl = -P
                  /\ (pfIn.side = "PE" /\ pfOut[i].S >= K) => pfOut[i].pnl = -P
            /\ \A i, j \in DOMAIN pfOut :
                  pfOut[i].S <= pfOut[j].S =>
                      IF pfIn.side = "CE" THEN pfOut[i].pnl <= pfOut[j].pnl
                      ELSE pfOut[i].pnl >= pfOut[j].pnl
            /\ PerUnitShape

\* a call series with points on both sides of the strike
C29_Witness ==
    /\ pfDone /\ pfOut # <<>> /\ pfIn.side = "CE"
    /\ \E i, j \in DOMAIN pfOut :
          /\ pfOut[i].S < 100 * Val(pfIn.strike) /\ pfOut[i].pnl = -100 * Val(pfIn.premium)
          /\ pfOut[j].S > 100 * Val(pfIn.strike) /\ pfOut[j].pnl > 0

\* C21: whenever the payoff modal of RecoPage is open on a selected row
\* whose payoff series is empty, it shows something other than the chart.
C21_EmptySeriesNotCharted ==
    (payoffOpen /\ Has(payoffRow) /\ payoffData = <<>>) => payoffBody # "chart"

\* C23: the breakeven PayoffModal reports is K+P for a call and K-P for a
\* put, and payoffPerUnit at that price is 0.
C23_Breakeven ==
    (pmDone /\ Has(pmPayload)) =>
        LET p  == Val(pmPayload)
            sd == toUpperCase(p.side)
        IN  /\ sd = "CE" => p.breakeven = p.strike + p.premium
            /\ sd = "PE" => p.breakeven = p.strike - p.premium
            /\ sd \in {"CE", "PE"} =>
                   payoffPerUnit(p.side, p.strike, p.premium, p.breakeven) = Some(0)

\* a put with a positive premium was rendered
C23_Witness ==
    /\ pmDone /\ Has(pmPayload)
    /\ toUpperCase(Val(pmPayload).side) = "PE" /\ Val(pmPayload).premium > 0
    /\ Val(pmPayload).breakeven < Val(pmPayload).strike

\* C24: the premium of the payoff curve is the quote's last-traded price
\* when the quote is present, ok and has a numeric price, and otherwise
\* (quote absent, not ok, or its price null) the row's entry price.
C24_PremiumSource ==
    Has(payoffMeta) =>
        Val(payoffMeta).premium =
            IF Has(payoffQuote) /\ Val(payoffQuote).ok /\ Has(Val(payoffQuote).ltp)
            THEN Val(payoffQuote).ltp
            ELSE getEntry(Val(payoffRow))

ClickOpens(r) == ~r.expired /\ r.side # "" /\ Has(r.strike) /\ Val(r.strike) # 0

\* C30: whenever the payoff modal is open, the selected row is not flagged
\* expired and has a side and a strike; and a click on a row that is
\* expired or lacks side or strike leaves the selected row, the selected
\* quote and the open flag as they were.
C30_ModalOnlyForLiveRows ==
    /\ [](payoffOpen => (Has(payoffRow) /\ ClickOpens(Val(payoffRow))))
    /\ [][(lastClick' # lastClick /\ ~ClickOpens(Val(lastClick')))
              => UNCHANGED <<payoffRow, payoffQuote, payoffOpen>>]_vars

\* the modal is open on a row after the click on an expired row was turned
\* away
C30_Witness ==
    /\ payoffOpen /\ Has(payoffRow) /\ Has(ignoredClick)
    /\ Val(ignoredClick).expired

====
